---------------------------- MODULE Spec2Model ----------------------------
(***************************************************************************)
(* Model of implementations/python/deepseek_mcp_server.py: the DeepSeek    *)
(* API client (reasoner fallback, beta-base retry), the classification of  *)
(* failing HTTP responses and the aggregation of streamed chunks.          *)
(*                                                                         *)
(* Python values are tagged records: None, Str(<<chars>>), Num(n),         *)
(* List(<<...>>) and Dict(f), f a function whose DOMAIN is the set of keys *)
(* present.  A Python str is a sequence of symbols: one-character strings  *)
(* where the code looks inside the text (lower(), `in`, endswith(),        *)
(* rstrip(), strip(), startswith()), whole words where it never does.      *)
(***************************************************************************)
EXTENDS Integers, Sequences, FiniteSets, TLC

VARIABLES
    config,      \* DeepSeekClientConfig of the client (never mutated)
    pc,          \* position of the logical client call
    call,        \* the logical call in progress: method, payload, effective model
    requests,    \* transport requests issued by the logical call so far
    held,        \* the DeepSeekApiError caught by the except clause, or None
    outcome,     \* what the logical call returned or raised, or None
    wire,        \* transport spec: what the transport answers to one request
    wireResult,  \* transport spec: the method that took the answer and what it returned or raised
    chunks,      \* aggregation spec: the chunk list handed to an aggregator
    aggregate,   \* aggregation spec: the aggregator that ran, its arguments and its result
    tool,        \* tool spec: the tool the host invoked and its arguments, or None
    baseUrl,     \* base URL spec: the base URL handed to build_beta_base_url
    betaUrls     \* base URL spec: the results of build_beta_base_url, each applied to the last

vars ==
    <<config, pc, call, requests, held, outcome, wire, wireResult, chunks, aggregate,
      tool, baseUrl, betaUrls>>

clientVars == <<config, pc, call, requests, held, outcome>>
wireVars == <<wire, wireResult>>
aggVars == <<chunks, aggregate>>
urlVars == <<baseUrl, betaUrls>>

---------------------------------------------------------------------------
(* Bounds *)

MaxLines == 2        \* lines of one streamed response body
MaxChunks == 3
MaxSegments == 3       \* path segments after the host of a base URL
MaxApplications == 2   \* applications of build_beta_base_url in a row       \* chunks handed to an aggregator

---------------------------------------------------------------------------
(* Python values *)

None == [k |-> "none"]
Str(s) == [k |-> "str", v |-> s]
Num(n) == [k |-> "num", v |-> n]
Bool(b) == [k |-> "bool", v |-> b]
List(s) == [k |-> "list", v |-> s]
Dict(f) == [k |-> "dict", d |-> f]

EmptyDict == Dict([key \in {} |-> None])

\* dict.get(key): the value at key, None when the key is absent
Get(dict, key) == IF key \in DOMAIN dict.d THEN dict.d[key] ELSE None

\* bool(value)
Truthy(value) ==
    CASE value.k = "none" -> FALSE
      [] value.k = "str" -> Len(value.v) > 0
      [] value.k = "num" -> value.v # 0
      [] value.k = "bool" -> value.v
      [] value.k = "list" -> Len(value.v) > 0
      [] value.k = "dict" -> DOMAIN value.d # {}

\* a or b
Or(a, b) == IF Truthy(a) THEN a ELSE b

RECURSIVE FoldLeft(_, _, _)
FoldLeft(Op(_, _), acc, seq) ==
    IF seq = <<>> THEN acc ELSE FoldLeft(Op, Op(acc, Head(seq)), Tail(seq))

IsStr(value) == value.k = "str"
IsDict(value) == value.k = "dict"

---------------------------------------------------------------------------
(* Text *)

LowerChar(c) ==
    CASE c = "A" -> "a" [] c = "B" -> "b" [] c = "E" -> "e" [] c = "T" -> "t"
      [] c = "U" -> "u" [] c = "R" -> "r" [] c = "L" -> "l" [] c = "S" -> "s"
      [] OTHER -> c

\* str.lower()
Lower(text) == [i \in 1..Len(text) |-> LowerChar(text[i])]

\* token in text
Contains(token, text) ==
    \E i \in 0..(Len(text) - Len(token)) : SubSeq(text, i + 1, i + Len(token)) = token

\* text.endswith(suffix)
EndsWith(text, suffix) ==
    /\ Len(text) >= Len(suffix)
    /\ SubSeq(text, Len(text) - Len(suffix) + 1, Len(text)) = suffix

DigitChar(d) ==
    CASE d = 0 -> "0" [] d = 1 -> "1" [] d = 2 -> "2" [] d = 3 -> "3" [] d = 4 -> "4"
      [] d = 5 -> "5" [] d = 6 -> "6" [] d = 7 -> "7" [] d = 8 -> "8" [] d = 9 -> "9"

RECURSIVE Digits(_)
\* str(n) of a non-negative integer
Digits(n) == IF n < 10 THEN <<DigitChar(n)>> ELSE Digits(n \div 10) \o <<DigitChar(n % 10)>>

TBeta == <<"u", "s", "e", " ", "B", "e", "t", "a">>
TBaseUrl == <<"B", "a", "s", "e", " ", "U", "R", "L">>
TRate == <<"r", "a", "t", "e">>
TOops == <<"o", "o", "p", "s">>


---------------------------------------------------------------------------
(* JSON text.  JsonDumps writes a value as compact JSON text; JsonLoads is *)
(* json.loads / Response.json() on the texts that can arrive: the value    *)
(* whose JSON text it is, or a decode failure.                             *)

Absent == [k |-> "absent"]   \* marks a key left out when a dict is built below

\* the order in which the keys of an object are written
KeyOrder ==
    <<"error", "message", "id", "object", "created", "model", "choices", "usage",
      "index", "delta", "role", "content", "reasoning_content", "text", "finish_reason",
      "total_tokens">>

Quoted(text) == <<"\"">> \o text \o <<"\"">>

RECURSIVE JsonDumps(_)
JsonDumps(value) ==
    CASE value.k = "none" -> <<"n", "u", "l", "l">>
      [] value.k = "num" -> Digits(value.v)
      [] value.k = "bool" -> IF value.v THEN <<"true">> ELSE <<"false">>
      [] value.k = "str" -> Quoted(value.v)
      [] value.k = "list" ->
            LET item(acc, i) ==
                    acc \o (IF i > 1 THEN <<",">> ELSE <<>>) \o JsonDumps(value.v[i])
            IN  <<"[">> \o FoldLeft(item, <<>>, [i \in 1..Len(value.v) |-> i]) \o <<"]">>
      [] value.k = "dict" ->
            LET member(acc, i) ==
                    IF KeyOrder[i] \notin DOMAIN value.d THEN acc
                    ELSE acc \o (IF acc # <<>> THEN <<",">> ELSE <<>>)
                         \o Quoted(<<KeyOrder[i]>>) \o <<":">> \o JsonDumps(value.d[KeyOrder[i]])
            IN  <<"{">> \o FoldLeft(member, <<>>, [i \in 1..Len(KeyOrder) |-> i]) \o <<"}">>

---------------------------------------------------------------------------
(* Bodies that can arrive *)

\* a dict with the keys whose value is not Absent
ErrorBody(error, message) ==
    Dict([key \in {c \in {"error", "message"} :
                      IF c = "error" THEN error # Absent ELSE message # Absent}
            |-> IF key = "error" THEN error ELSE message])

MessageTexts == {<<>>, TBeta, TRate}
MessageValues == {Absent, None, Num(7)} \cup {Str(t) : t \in MessageTexts}
ErrorValues ==
    {Absent, None, Str(TRate)} \cup {ErrorBody(Absent, m) : m \in MessageValues}

JsonBodies ==
    {None, Num(7), Str(TBeta), List(<<>>)}
    \cup {ErrorBody(e, m) : e \in ErrorValues, m \in MessageValues}

\* response texts that are not JSON
PlainTexts == {<<>>, TBeta, TOops}

Assistant == Str(<<"assistant">>)
Chat == <<"deepseek-chat">>
Reasoner == <<"deepseek-reasoner">>
Usage == Dict([total_tokens |-> Num(3)])

ChatChunks ==
    { Dict([id |-> Str(<<"abc">>), created |-> Num(1), model |-> Str(Chat),
            choices |-> List(<<Dict([index |-> Num(0),
                                     delta |-> Dict([role |-> Assistant,
                                                     content |-> Str(<<"HELLO_">>)])])>>)]),
      Dict([id |-> Str(<<"abc">>), created |-> Num(2), model |-> Str(Chat),
            choices |-> List(<<Dict([index |-> Num(0),
                                     delta |-> Dict([content |-> Str(<<"WORLD">>)]),
                                     finish_reason |-> Str(<<"stop">>)])>>),
            usage |-> Usage]),
      Dict([choices |-> List(<<Dict([delta |-> Dict([content |-> None]),
                                     finish_reason |-> None])>>)]),
      Dict([choices |-> List(<<Dict([delta |-> Dict([content |-> Str(<<>>)]),
                                     finish_reason |-> Str(<<>>)])>>)]),
      Dict([choices |-> List(<<Dict([delta |-> Dict([reasoning_content |-> Str(<<"think">>)]),
                                     finish_reason |-> Str(<<"length">>)])>>),
            usage |-> None]),
      Dict([choices |-> List(<<Dict([delta |-> None, text |-> Str(<<"t">>)]),
                               Dict([delta |-> Dict([content |-> Str(<<"x">>)]),
                                     finish_reason |-> Str(<<"stop">>)])>>)]),
      Dict([created |-> Num(3), choices |-> None]) }

CompletionChunks ==
    { Dict([id |-> Str(<<"cmpl-1">>), created |-> Num(10), model |-> Str(Chat),
            choices |-> List(<<Dict([index |-> Num(0), text |-> Str(<<"foo">>)])>>)]),
      Dict([id |-> Str(<<"cmpl-1">>), created |-> Num(11), model |-> Str(Chat),
            choices |-> List(<<Dict([index |-> Num(0), text |-> Str(<<"bar">>),
                                     finish_reason |-> Str(<<"stop">>)])>>),
            usage |-> Usage]),
      Dict([choices |-> List(<<Dict([text |-> None, finish_reason |-> Str(<<>>)])>>)]),
      Dict([choices |-> List(<<Dict([text |-> Str(<<"a">>),
                                     finish_reason |-> Str(<<"length">>),
                                     delta |-> Dict([content |-> Str(<<"d">>),
                                                     reasoning_content |-> Str(<<"r">>)])]),
                               Dict([text |-> Str(<<"b">>)])>>)]),
      EmptyDict }

StreamChunks == ChatChunks \cup CompletionChunks


\* every JSON text that can arrive, with the value it decodes to
JsonTexts == {<<JsonDumps(v), v>> : v \in JsonBodies \cup StreamChunks}

BodyTexts == PlainTexts \cup {JsonDumps(v) : v \in JsonBodies}

JsonLoads(text) ==
    IF \E p \in JsonTexts : p[1] = text
    THEN [ok |-> TRUE, value |-> (CHOOSE p \in JsonTexts : p[1] = text)[2]]
    ELSE [ok |-> FALSE, value |-> None]

\* sequences over S of length at most n
RECURSIVE SeqsUpTo(_, _)
SeqsUpTo(S, n) ==
    IF n = 0 THEN {<<>>}
    ELSE SeqsUpTo(S, n - 1) \cup {Append(q, x) : q \in {r \in SeqsUpTo(S, n - 1) : Len(r) = n - 1}, x \in S}

---------------------------------------------------------------------------
(* What the transport can answer.  A response is a status and a body; the  *)
(* body is its sequence of lines, Response.text the lines joined.          *)

Statuses == {200, 302, 400, 429, 503}

DataLine(text) == <<"data:", " ">> \o text

\* chunks whose JSON text arrives on a data line
WireChunks ==
    {c \in StreamChunks :
        \/ Get(c, "created") \in {Num(2), Num(11)}
        \/ c = EmptyDict}

SseLines ==
    {<<>>, <<":", "k">>, DataLine(<<"[DONE]">>), <<"data:", "[DONE]", " ">>,
     DataLine(<<"{", "o", "o", "p", "s">>), DataLine(<<>>), DataLine(JsonDumps(Num(7)))}
    \cup {DataLine(JsonDumps(c)) : c \in WireChunks}

Bodies == {<<t>> : t \in BodyTexts} \cup SeqsUpTo(SseLines, MaxLines)

Response(status, body) == [k |-> "response", status |-> status, body |-> body]
NoResponse == [k |-> "error"]

Replies == {NoResponse} \cup {Response(st, b) : st \in Statuses, b \in Bodies}

\* Response.text
Text(response) ==
    LET line(acc, i) ==
            acc \o (IF i > 1 THEN <<"\n">> ELSE <<>>) \o response.body[i]
    IN  FoldLeft(line, <<>>, [i \in 1..Len(response.body) |-> i])

---------------------------------------------------------------------------
(* Errors *)

RETRIABLE_STATUS_CODES == {408, 409, 429, 500, 502, 503, 504}

\* DeepSeekApiError(message, status=..., payload=...)
DeepSeekApiError(message, status, payload) ==
    [cls |-> "DeepSeekApiError", message |-> message, status |-> status, payload |-> payload]

\* an httpx.TransportError (connect failure, timeout): no response, no status
TransportError ==
    [cls |-> "TransportError", message |-> <<"t", "i", "m", "e", "d", " ", "o", "u", "t">>,
     status |-> None, payload |-> None]

Return(value) == [k |-> "return", value |-> value]
Raise(error) == [k |-> "raise", error |-> error]

StatusMessage(status) ==
    <<"D", "e", "e", "p", "S", "e", "e", "k", " ", "A", "P", "I", " ", "e", "r", "r", "o", "r",
      " ", "(", "s", "t", "a", "t", "u", "s", " ">> \o Digits(status) \o <<")">>

InvalidJsonMessage ==
    <<"D", "e", "e", "p", "S", "e", "e", "k", " ", "A", "P", "I", " ", "r", "e", "t", "u", "r",
      "n", "e", "d", " ", "i", "n", "v", "a", "l", "i", "d", " ", "J", "S", "O", "N", ":", " ",
      "E", "x", "p", "e", "c", "t", "i", "n", "g", " ", "v", "a", "l", "u", "e">>

extract_error_message(payload) ==
    IF ~IsDict(payload) THEN None
    ELSE LET error == Get(payload, "error")
         IN  IF IsDict(error) /\ IsStr(Get(error, "message"))
             THEN Get(error, "message")
             ELSE IF IsStr(Get(payload, "message"))
                  THEN Get(payload, "message")
                  ELSE None

\* the decoded body, None when the body does not decode
Payload(parsed) == IF parsed.ok THEN parsed.value ELSE None

\* `if not message: message = f"DeepSeek API error (status {status})"`
OrStatusMessage(message, status) ==
    IF ~Truthy(message) THEN StatusMessage(status) ELSE message.v

\* make_api_error once response.json() has decoded the body or failed to
ApiErrorOfPayload(payload, text, status) ==
    DeepSeekApiError(
        OrStatusMessage(IF payload # None THEN extract_error_message(payload) ELSE Str(text),
                        status),
        Num(status), payload)

\* the message as it is, without the synthesized one
OrNoMessage(message, status) ==
    IF ~Truthy(message) THEN <<>> ELSE message.v

\* ApiErrorOfPayload without the synthesized message
ApiErrorOfPayload_bare(payload, text, status) ==
    DeepSeekApiError(
        OrNoMessage(IF payload # None THEN extract_error_message(payload) ELSE Str(text),
                    status),
        Num(status), payload)

\* make_api_error without the synthesized message
make_api_error_bare(response) ==
    ApiErrorOfPayload_bare(Payload(JsonLoads(Text(response))), Text(response), response.status)

make_api_error(response) ==
    ApiErrorOfPayload(Payload(JsonLoads(Text(response))), Text(response), response.status)

\* make_api_error_from_text once json.loads(text) has decoded the text or failed to
ApiErrorOfText(parsed, text, status_code) ==
    DeepSeekApiError(
        OrStatusMessage(IF parsed.ok THEN Or(extract_error_message(parsed.value), Str(text))
                        ELSE Str(text),
                        status_code),
        Num(status_code), Payload(parsed))

make_api_error_from_text(status_code, text) ==
    ApiErrorOfText(JsonLoads(text), text, status_code)

\* should_retry_completion_on_beta without lower()
should_retry_completion_on_beta_cased(error) ==
    LET text == error.message
    IN  \E token \in {<<"b", "e", "t", "a">>,
                      <<"b", "a", "s", "e", " ", "u", "r", "l">>,
                      <<"b", "a", "s", "e", "_", "u", "r", "l">>,
                      <<"/", "b", "e", "t", "a">>} : Contains(token, text)

should_retry_completion_on_beta(error) ==
    LET text == Lower(error.message)
    IN  \E token \in {<<"b", "e", "t", "a">>,
                      <<"b", "a", "s", "e", " ", "u", "r", "l">>,
                      <<"b", "a", "s", "e", "_", "u", "r", "l">>,
                      <<"/", "b", "e", "t", "a">>} : Contains(token, text)

---------------------------------------------------------------------------
(* Streamed chunks and their aggregation *)

\* "".join(parts)
Join(parts) == LET cat(a, b) == a \o b IN FoldLeft(cat, <<>>, parts)

\* str(value)
PyStr(value) ==
    CASE value.k = "str" -> value.v
      [] value.k = "num" -> Digits(value.v)
      [] value.k = "bool" -> IF value.v THEN <<"True">> ELSE <<"False">>
      [] OTHER -> <<"None">>

\* exceptions other than DeepSeekApiError
PyError(cls) == [cls |-> cls, message |-> <<cls>>, status |-> None, payload |-> None]

\* the items a for loop takes from `choices or []`, or the exception it raises
Iterate(choices) ==
    CASE choices.k = "list" -> Return(choices.v)
      [] choices.k \in {"str", "dict"} -> Raise(PyError("AttributeError"))
      [] OTHER -> Raise(PyError("TypeError"))

\* the items of `chunk.get("choices", []) or []`
Choices(chunk) ==
    Iterate(Or(IF "choices" \in DOMAIN chunk.d THEN chunk.d["choices"] ELSE List(<<>>),
               List(<<>>)))

\* the loop state when an exception has been raised
Failed(acc, error) == [acc EXCEPT !.error = error]

\* the strings collected so far, with value appended when it is a str
Collect(parts, value) == IF IsStr(value) THEN Append(parts, value.v) ELSE parts

\* ChatDelta that takes each choice's finish_reason as it is
ChatDelta_erasing(acc, choice, delta) ==
    IF ~IsDict(delta) THEN Failed(acc, PyError("AttributeError"))
    ELSE [content_parts |-> Collect(acc.content_parts, Get(delta, "content")),
          reasoning_parts |-> Collect(acc.reasoning_parts, Get(delta, "reasoning_content")),
          finish_reason |-> Get(choice, "finish_reason"),
          error |-> None]

\* the inner loop body of aggregate_chat_chunks after `delta = choice.get("delta") or {}`
ChatDelta(acc, choice, delta) ==
    IF ~IsDict(delta) THEN Failed(acc, PyError("AttributeError"))
    ELSE [content_parts |-> Collect(acc.content_parts, Get(delta, "content")),
          reasoning_parts |-> Collect(acc.reasoning_parts, Get(delta, "reasoning_content")),
          finish_reason |-> Or(Get(choice, "finish_reason"), acc.finish_reason),
          error |-> None]

\* one pass of the inner loop body of aggregate_chat_chunks
ChatChoice(acc, choice) ==
    IF acc.error # None THEN acc
    ELSE IF ~IsDict(choice) THEN Failed(acc, PyError("AttributeError"))
    ELSE ChatDelta(acc, choice, Or(Get(choice, "delta"), EmptyDict))

\* CompletionChoice that puts each fragment in front of the earlier ones
CompletionChoice_prepending(acc, choice) ==
    IF acc.error # None THEN acc
    ELSE IF ~IsDict(choice) THEN Failed(acc, PyError("AttributeError"))
    ELSE [text_parts |->
              IF IsStr(Get(choice, "text")) THEN <<Get(choice, "text").v>> \o acc.text_parts
              ELSE acc.text_parts,
          finish_reason |-> Or(Get(choice, "finish_reason"), acc.finish_reason),
          error |-> None]

\* one pass of the inner loop body of aggregate_completion_chunks
CompletionChoice(acc, choice) ==
    IF acc.error # None THEN acc
    ELSE IF ~IsDict(choice) THEN Failed(acc, PyError("AttributeError"))
    ELSE [text_parts |-> Collect(acc.text_parts, Get(choice, "text")),
          finish_reason |-> Or(Get(choice, "finish_reason"), acc.finish_reason),
          error |-> None]

\* the inner loop of aggregate_chat_chunks over the choices of one chunk
ChatChoices(acc, choices) ==
    IF choices.k = "raise" THEN Failed(acc, choices.error)
    ELSE FoldLeft(ChatChoice, acc, choices.value)

\* the inner loop of aggregate_completion_chunks over the choices of one chunk
CompletionChoices(acc, choices) ==
    IF choices.k = "raise" THEN Failed(acc, choices.error)
    ELSE FoldLeft(CompletionChoice, acc, choices.value)

\* one pass of the outer loop body of aggregate_chat_chunks
ChatChunk(acc, chunk) ==
    IF acc.error # None THEN acc
    ELSE IF ~IsDict(chunk) THEN Failed(acc, PyError("AttributeError"))
    ELSE ChatChoices(acc, Choices(chunk))

\* one pass of the outer loop body of aggregate_completion_chunks
CompletionChunk(acc, chunk) ==
    IF acc.error # None THEN acc
    ELSE IF ~IsDict(chunk) THEN Failed(acc, PyError("AttributeError"))
    ELSE CompletionChoices(acc, Choices(chunk))

StreamId(prefix, now) == Str(<<prefix>> \o Digits(now))

\* the message of the aggregated chat response
ChatMessage(content_parts, reasoning_parts) ==
    IF reasoning_parts # <<>>
    THEN Dict([role |-> Str(<<"assistant">>),
               content |-> Str(Join(content_parts)),
               reasoning_content |-> Str(Join(reasoning_parts))])
    ELSE Dict([role |-> Str(<<"assistant">>),
               content |-> Str(Join(content_parts))])

\* ChatAggregate that takes the usage of the first chunk
ChatAggregate_first(first, last, loop, fallback_model, now) ==
    IF ~IsDict(first) THEN Raise(PyError("AttributeError"))
    ELSE IF loop.error # None THEN Raise(loop.error)
    ELSE Return(Dict(
        [id |-> Or(Get(first, "id"), StreamId("chatcmpl-stream-", now)),
         object |-> Str(<<"chat.completion">>),
         created |-> Or(Get(last, "created"), Or(Get(first, "created"), Num(now))),
         model |-> Str(PyStr(Or(Get(first, "model"), Str(fallback_model)))),
         choices |-> List(<<Dict([index |-> Num(0),
                                  message |-> ChatMessage(loop.content_parts,
                                                          loop.reasoning_parts),
                                  finish_reason |-> loop.finish_reason])>>),
         usage |-> Get(first, "usage")]))

\* aggregate_chat_chunks on a non-empty chunk list, from the end of its loops
ChatAggregate(first, last, loop, fallback_model, now) ==
    IF ~IsDict(first) THEN Raise(PyError("AttributeError"))
    ELSE IF loop.error # None THEN Raise(loop.error)
    ELSE Return(Dict(
        [id |-> Or(Get(first, "id"), StreamId("chatcmpl-stream-", now)),
         object |-> Str(<<"chat.completion">>),
         created |-> Or(Get(last, "created"), Or(Get(first, "created"), Num(now))),
         model |-> Str(PyStr(Or(Get(first, "model"), Str(fallback_model)))),
         choices |-> List(<<Dict([index |-> Num(0),
                                  message |-> ChatMessage(loop.content_parts,
                                                          loop.reasoning_parts),
                                  finish_reason |-> loop.finish_reason])>>),
         usage |-> Get(last, "usage")]))

aggregate_chat_chunks(chunkList, fallback_model, now) ==
    IF chunkList = <<>>
    THEN Return(Dict([id |-> StreamId("chatcmpl-stream-", now),
                      object |-> Str(<<"chat.completion">>),
                      created |-> Num(now),
                      model |-> Str(fallback_model),
                      choices |-> List(<<Dict([index |-> Num(0),
                                               message |-> Dict([role |-> Str(<<"assistant">>),
                                                                 content |-> Str(<<>>)]),
                                               finish_reason |-> None])>>),
                      usage |-> None]))
    ELSE ChatAggregate(chunkList[1], chunkList[Len(chunkList)],
                       FoldLeft(ChatChunk,
                                [content_parts |-> <<>>, reasoning_parts |-> <<>>,
                                 finish_reason |-> None, error |-> None],
                                chunkList),
                       fallback_model, now)

\* aggregate_completion_chunks on a non-empty chunk list, from the end of its loops
CompletionAggregate(first, last, loop, fallback_model, now) ==
    IF ~IsDict(first) THEN Raise(PyError("AttributeError"))
    ELSE IF loop.error # None THEN Raise(loop.error)
    ELSE Return(Dict(
        [id |-> Or(Get(first, "id"), StreamId("cmpl-stream-", now)),
         object |-> Str(<<"text_completion">>),
         created |-> Or(Get(last, "created"), Or(Get(first, "created"), Num(now))),
         model |-> Str(PyStr(Or(Get(first, "model"), Str(fallback_model)))),
         choices |-> List(<<Dict([index |-> Num(0),
                                  text |-> Str(Join(loop.text_parts)),
                                  finish_reason |-> loop.finish_reason])>>),
         usage |-> Get(last, "usage")]))

aggregate_completion_chunks(chunkList, fallback_model, now) ==
    IF chunkList = <<>>
    THEN Return(Dict([id |-> StreamId("cmpl-stream-", now),
                      object |-> Str(<<"text_completion">>),
                      created |-> Num(now),
                      model |-> Str(fallback_model),
                      choices |-> List(<<Dict([index |-> Num(0),
                                               text |-> Str(<<>>),
                                               finish_reason |-> None])>>),
                      usage |-> None]))
    ELSE CompletionAggregate(chunkList[1], chunkList[Len(chunkList)],
                             FoldLeft(CompletionChunk,
                                      [text_parts |-> <<>>, finish_reason |-> None,
                                       error |-> None],
                                      chunkList),
                             fallback_model, now)

---------------------------------------------------------------------------
(* Transport: _request_json, _request_sse_json, _chat_or_completion_request *)

Host == <<"https://api.deepseek.com">>
Slash == <<"/">>
Beta == <<"/", "b", "e", "t", "a">>

RECURSIVE normalize_base_url(_)
\* value.rstrip("/")
normalize_base_url(value) ==
    IF value # <<>> /\ value[Len(value)] = "/"
    THEN normalize_base_url(SubSeq(value, 1, Len(value) - 1))
    ELSE value

\* build_beta_base_url that appends "/beta" whatever the base URL ends in
build_beta_base_url_appending(base_url) ==
    normalize_base_url(base_url) \o Beta

build_beta_base_url(base_url) ==
    LET normalized == normalize_base_url(base_url)
    IN  IF EndsWith(normalized, Beta) THEN normalized ELSE normalized \o Beta

RECURSIVE Strip(_)
\* text.strip()
Strip(text) ==
    IF text # <<>> /\ text[1] = " " THEN Strip(Tail(text))
    ELSE IF text # <<>> /\ text[Len(text)] = " " THEN Strip(SubSeq(text, 1, Len(text) - 1))
    ELSE text

\* the request that _request_json / _request_sse_json hand to httpx
Request(cfg, method, path, body, base_url_override, accept) ==
    LET base_url == normalize_base_url(IF Truthy(base_url_override) THEN base_url_override.v
                                       ELSE cfg.base_url)
    IN  [method |-> method, base_url |-> base_url, path |-> path, url |-> base_url \o <<path>>,
         accept |-> accept, json |-> body]

\* `return response.json()` with its `except ValueError`
JsonOf(parsed, status) ==
    IF parsed.ok THEN Return(parsed.value)
    ELSE Raise(DeepSeekApiError(InvalidJsonMessage, Num(status), None))

\* _request_json from the point where client.request() returns or raises
request_json(reply) ==
    IF reply.k = "error" THEN Raise(TransportError)
    ELSE IF reply.status >= 400 THEN Raise(make_api_error(reply))
    ELSE JsonOf(JsonLoads(Text(reply)), reply.status)

\* the chunks collected once json.loads(data) has decoded a data line or failed to
Collected(collected, parsed) ==
    IF parsed.ok THEN Append(collected, parsed.value) ELSE collected

\* SseLine that skips the termination marker and reads on
SseLine_continuing(acc, line) ==
    IF acc.done THEN acc
    ELSE IF line = <<>> THEN acc
    ELSE IF line[1] # "data:" THEN acc
    ELSE IF Strip(Tail(line)) = <<"[DONE]">> THEN acc
    ELSE [acc EXCEPT !.chunks = Collected(acc.chunks, JsonLoads(Strip(Tail(line))))]

\* one pass of the loop of _request_sse_json over response.iter_lines()
SseLine(acc, line) ==
    IF acc.done THEN acc
    ELSE IF line = <<>> THEN acc
    ELSE IF line[1] # "data:" THEN acc
    ELSE IF Strip(Tail(line)) = <<"[DONE]">> THEN [acc EXCEPT !.done = TRUE]
    ELSE [acc EXCEPT !.chunks = Collected(acc.chunks, JsonLoads(Strip(Tail(line))))]

\* the loop of _request_sse_json over response.iter_lines()
SseLoop(lines, collected) ==
    FoldLeft(SseLine, [chunks |-> collected, done |-> FALSE], lines).chunks

\* _request_sse_json from the point where client.stream() returns or raises
request_sse_json(reply) ==
    IF reply.k = "error" THEN Raise(TransportError)
    ELSE IF reply.status >= 400
         THEN Raise(make_api_error_from_text(reply.status, Text(reply)))
         ELSE Return(SseLoop(reply.body, <<>>))

\* the request _chat_or_completion_request issues
chat_or_completion_send(cfg, path, payload, base_url_override) ==
    IF Truthy(Get(payload, "stream"))
    THEN Request(cfg, "POST", path, payload, base_url_override, "text/event-stream")
    ELSE Request(cfg, "POST", path, payload, base_url_override, "application/json")

\* Streamed that takes a stream without chunks for a failure
Streamed_nonempty(aggregated, count) ==
    IF aggregated.k = "raise" THEN aggregated
    ELSE IF count = 0 THEN Raise(DeepSeekApiError(<<"empty stream">>, None, None))
    ELSE Return(<<aggregated.value, Num(count)>>)

\* `return response, len(chunks)`
Streamed(aggregated, count) ==
    IF aggregated.k = "raise" THEN aggregated
    ELSE Return(<<aggregated.value, Num(count)>>)

\* the streaming branch of _chat_or_completion_request after _request_sse_json
StreamResult(path, payload, received, now) ==
    IF received.k = "raise" THEN received
    ELSE IF path = "/chat/completions"
         THEN Streamed(aggregate_chat_chunks(received.value, PyStr(Get(payload, "model")), now),
                       Len(received.value))
         ELSE Streamed(aggregate_completion_chunks(received.value,
                                                   PyStr(Get(payload, "model")), now),
                       Len(received.value))

\* the other branch of _chat_or_completion_request after _request_json
JsonResult(response) ==
    IF response.k = "raise" THEN response
    ELSE Return(<<response.value, None>>)

\* _chat_or_completion_request once the transport has answered: the pair
\* (response, stream_chunk_count) or the exception
chat_or_completion_request(path, payload, reply, now) ==
    IF Truthy(Get(payload, "stream"))
    THEN StreamResult(path, payload, request_sse_json(reply), now)
    ELSE JsonResult(request_json(reply))

---------------------------------------------------------------------------
(* The client: create_chat_completion and create_completion.  Each is cut  *)
(* at its transport calls: the part up to the first request, the part that *)
(* runs when the first request is answered, and the part that runs when    *)
(* the retried request is answered.                                        *)

Configs ==
    [enable_reasoner_fallback : BOOLEAN,
     fallback_model : {Chat, Reasoner},
     default_model : {Chat, Reasoner},
     base_url : {Host, Host \o Slash, Host \o Beta}]

Messages == List(<<Dict([role |-> Str(<<"user">>), content |-> Str(<<"hi">>)])>>)

\* payloads the chat_completion / completion tools hand to the client
ChatArgs ==
    {Dict([messages |-> Messages, stream |-> Bool(st)]) : st \in BOOLEAN}
    \cup {Dict([messages |-> Messages, stream |-> Bool(st), model |-> Str(m)]) :
             st \in BOOLEAN, m \in {Chat, Reasoner}}

CompletionArgs ==
    {Dict([prompt |-> Str(<<"hi">>), stream |-> Bool(st)]) : st \in BOOLEAN}
    \cup {Dict([prompt |-> Str(<<"hi">>), stream |-> Bool(st), model |-> Str(m)]) :
             st \in BOOLEAN, m \in {Chat, Reasoner}}

\* what the transport answers to a client call
ClientTexts ==
    {<<>>, TBeta, TBaseUrl,
     JsonDumps(EmptyDict),
     JsonDumps(ErrorBody(ErrorBody(Absent, Str(TBeta)), Absent)),
     JsonDumps(ErrorBody(Absent, Str(TRate)))}

ClientLines ==
    {DataLine(<<"[DONE]">>)}
    \cup {DataLine(JsonDumps(c)) : c \in {w \in WireChunks : w # EmptyDict}}

ClientReplies ==
    {NoResponse}
    \cup {Response(st, b) : st \in {200, 400, 429, 503},
                            b \in {<<t>> : t \in ClientTexts} \cup SeqsUpTo(ClientLines, MaxLines)}

Clock == {1000}   \* values of int(time.time())

\* payload = dict(payload); payload[key] = value
SetItem(payload, key, value) ==
    Dict([c \in DOMAIN payload.d \cup {key} |-> IF c = key THEN value ELSE payload.d[c]])

should_reasoner_fallback(cfg, model, error) ==
    IF ~cfg.enable_reasoner_fallback THEN FALSE
    ELSE IF model # Reasoner THEN FALSE
    ELSE IF cfg.fallback_model = model THEN FALSE
    ELSE IF error.status = None THEN TRUE
    ELSE error.status.v \in RETRIABLE_STATUS_CODES

\* a request handed to httpx inside `with httpx.Client(...)`: its connection is open
Pending(request) == [request |-> request, reply |-> None, open |-> TRUE]

\* Released that keeps the connection when the transport raises
Released_leaking(entry, reply) == [entry EXCEPT !.reply = reply, !.open = (reply.k = "error")]

\* the request is answered and the `with` block is left, by return or by exception
Released(entry, reply) == [entry EXCEPT !.reply = reply, !.open = FALSE]

\* where a step of a client method leaves the logical call
Goes(position, caught, result, sent) ==
    [pc |-> position, held |-> caught, outcome |-> result, send |-> sent]

\* chat_begin that keeps the model the caller named for the fallback test
chat_begin_requested(cfg, arg) ==
    LET model == PyStr(Get(arg, "model"))
        payload == SetItem(arg, "model",
                           Str(PyStr(Or(Get(arg, "model"), Str(cfg.default_model)))))
    IN  [method |-> "create_chat_completion", arg |-> arg, model |-> model, payload |-> payload,
         send |-> <<chat_or_completion_send(cfg, "/chat/completions", payload, None)>>]

\* create_chat_completion up to its first transport call
chat_begin(cfg, arg) ==
    LET model == PyStr(Or(Get(arg, "model"), Str(cfg.default_model)))
        payload == SetItem(arg, "model", Str(model))
    IN  [method |-> "create_chat_completion", arg |-> arg, model |-> model, payload |-> payload,
         send |-> <<chat_or_completion_send(cfg, "/chat/completions", payload, None)>>]

\* FallbackPayload rebuilt from the messages alone
FallbackPayload_rebuilt(cfg, c) ==
    Dict([messages |-> c.payload.d["messages"], model |-> Str(cfg.fallback_model)])

\* the payload of the fallback call
FallbackPayload(cfg, c) == SetItem(c.payload, "model", Str(cfg.fallback_model))

\* create_chat_completion after its first _chat_or_completion_request
ChatFirst(cfg, c, got) ==
    IF got.k = "return"
    THEN Goes("done", None,
              Return(Dict([response |-> got.value[1], fallback |-> None,
                           stream_chunk_count |-> got.value[2]])),
              <<>>)
    ELSE IF got.error.cls # "DeepSeekApiError" THEN Goes("done", None, got, <<>>)
    ELSE IF ~should_reasoner_fallback(cfg, c.model, got.error)
         THEN Goes("done", got.error, got, <<>>)
         ELSE Goes("retry", got.error, None,
                   <<chat_or_completion_send(cfg, "/chat/completions",
                                              FallbackPayload(cfg, c), None)>>)

\* create_chat_completion when its first transport call is answered
chat_first(cfg, c, reply, now) ==
    ChatFirst(cfg, c, chat_or_completion_request("/chat/completions", c.payload, reply, now))

\* ChatRetry that applies the fallback policy to the fallback call's error too
ChatRetry_again(cfg, c, error, got) ==
    IF got.k = "return"
    THEN Goes("done", error,
              Return(Dict([response |-> got.value[1],
                           fallback |-> Dict([from_model |-> Str(c.model),
                                              to_model |-> Str(cfg.fallback_model),
                                              reason |-> Str(error.message)]),
                           stream_chunk_count |-> got.value[2]])),
              <<>>)
    ELSE IF got.error.cls = "DeepSeekApiError"
            /\ should_reasoner_fallback(cfg, c.model, got.error)
         THEN Goes("retry", got.error, None,
                   <<chat_or_completion_send(cfg, "/chat/completions",
                                              FallbackPayload(cfg, c), None)>>)
         ELSE Goes("done", error, got, <<>>)

\* ChatRetry that returns the fallback model's response without provenance
ChatRetry_unannotated(cfg, c, error, got) ==
    IF got.k = "return"
    THEN Goes("done", error,
              Return(Dict([response |-> got.value[1], fallback |-> None,
                           stream_chunk_count |-> got.value[2]])),
              <<>>)
    ELSE Goes("done", error, got, <<>>)

\* create_chat_completion after the _chat_or_completion_request of its fallback
ChatRetry(cfg, c, error, got) ==
    IF got.k = "return"
    THEN Goes("done", error,
              Return(Dict([response |-> got.value[1],
                           fallback |-> Dict([from_model |-> Str(c.model),
                                              to_model |-> Str(cfg.fallback_model),
                                              reason |-> Str(error.message)]),
                           stream_chunk_count |-> got.value[2]])),
              <<>>)
    ELSE Goes("done", error, got, <<>>)

\* chat_retry that applies the fallback policy to the fallback call's error too
chat_retry_again(cfg, c, error, reply, now) ==
    ChatRetry_again(cfg, c, error,
                    chat_or_completion_request("/chat/completions", FallbackPayload(cfg, c),
                                               reply, now))

\* chat_retry that returns the fallback model's response without provenance
chat_retry_unannotated(cfg, c, error, reply, now) ==
    ChatRetry_unannotated(cfg, c, error,
                          chat_or_completion_request("/chat/completions",
                                                     FallbackPayload(cfg, c), reply, now))

\* create_chat_completion when its fallback transport call is answered
chat_retry(cfg, c, error, reply, now) ==
    ChatRetry(cfg, c, error,
              chat_or_completion_request("/chat/completions", FallbackPayload(cfg, c),
                                         reply, now))

\* create_completion up to its first transport call
completion_begin(cfg, arg) ==
    LET model == PyStr(Or(Get(arg, "model"), Str(cfg.default_model)))
        payload == SetItem(arg, "model", Str(model))
    IN  [method |-> "create_completion", arg |-> arg, model |-> model, payload |-> payload,
         send |-> <<chat_or_completion_send(cfg, "/completions", payload, None)>>]

\* create_completion after its first _chat_or_completion_request
CompletionFirst(cfg, c, got) ==
    IF got.k = "return"
    THEN Goes("done", None,
              Return(Dict([response |-> got.value[1], used_beta_base |-> Bool(FALSE),
                           stream_chunk_count |-> got.value[2]])),
              <<>>)
    ELSE IF got.error.cls # "DeepSeekApiError" THEN Goes("done", None, got, <<>>)
    ELSE IF ~should_retry_completion_on_beta(got.error)
         THEN Goes("done", got.error, got, <<>>)
         ELSE Goes("retry", got.error, None,
                   <<chat_or_completion_send(cfg, "/completions", c.payload,
                                              Str(build_beta_base_url(cfg.base_url)))>>)

\* create_completion when its first transport call is answered
completion_first(cfg, c, reply, now) ==
    CompletionFirst(cfg, c, chat_or_completion_request("/completions", c.payload, reply, now))

\* create_completion after the _chat_or_completion_request on the beta base
CompletionRetry(error, got) ==
    IF got.k = "return"
    THEN Goes("done", error,
              Return(Dict([response |-> got.value[1], used_beta_base |-> Bool(TRUE),
                           stream_chunk_count |-> got.value[2]])),
              <<>>)
    ELSE Goes("done", error, got, <<>>)

\* create_completion when its beta-base transport call is answered
completion_retry(cfg, c, error, reply, now) ==
    CompletionRetry(error, chat_or_completion_request("/completions", c.payload, reply, now))

---------------------------------------------------------------------------
(* The tools: chat_completion and completion build the payload from their  *)
(* named arguments and extra_body and hand it to the client                *)

\* SetUnlessNone that sets the key whatever the value
SetUnlessNone_always(payload, key, value) == SetItem(payload, key, value)

\* `if value is not None: payload[key] = value`
SetUnlessNone(payload, key, value) ==
    IF value # None THEN SetItem(payload, key, value) ELSE payload

\* `if model: payload["model"] = model`
SetIfTruthy(payload, key, value) ==
    IF Truthy(value) THEN SetItem(payload, key, value) ELSE payload

\* Update that keeps the value of a key the payload already has
Update_keeping(payload, other) ==
    Dict([key \in DOMAIN payload.d \cup DOMAIN other.d |->
             IF key \in DOMAIN payload.d THEN payload.d[key] ELSE other.d[key]])

\* payload.update(other)
Update(payload, other) ==
    Dict([key \in DOMAIN payload.d \cup DOMAIN other.d |->
             IF key \in DOMAIN other.d THEN other.d[key] ELSE payload.d[key]])

\* `if extra_body: payload.update(extra_body)`
MergeExtraBody(payload, extra_body) ==
    IF Truthy(extra_body) THEN Update(payload, extra_body) ELSE payload

\* the optional arguments of chat_completion after model, in the order of its tests
ChatOptions ==
    <<"temperature", "top_p", "max_tokens", "max_completion_tokens", "stop",
      "response_format", "tools", "tool_choice", "thinking">>

\* the optional arguments of completion after model, in the order of its tests
CompletionOptions == <<"suffix", "temperature", "top_p", "max_tokens", "stop">>

\* the chain of `if <argument> is not None: payload[<argument>] = <argument>`
SetOptions(payload, options, args) ==
    LET set(acc, key) == SetUnlessNone(acc, key, args[key])
    IN  FoldLeft(set, payload, options)

\* the payload the chat_completion tool hands to create_chat_completion
chat_completion(args) ==
    MergeExtraBody(
        SetOptions(SetIfTruthy(Dict([messages |-> args.messages, stream |-> args.stream]),
                               "model", args.model),
                   ChatOptions, args),
        args.extra_body)

\* the payload the completion tool hands to create_completion
completion(args) ==
    MergeExtraBody(
        SetOptions(SetIfTruthy(Dict([prompt |-> args.prompt, stream |-> args.stream]),
                               "model", args.model),
                   CompletionOptions, args),
        args.extra_body)

\* optional arguments of a chat_completion call: none, one that is false
\* without being null, all of them
ChatOptionValues ==
    LET none == [key \in {ChatOptions[i] : i \in DOMAIN ChatOptions} |-> None]
    IN  {none,
         [none EXCEPT !["temperature"] = Num(0)],
         [temperature |-> Num(0), top_p |-> Num(1), max_tokens |-> Num(5),
          max_completion_tokens |-> Num(5), stop |-> Str(<<"END">>),
          response_format |-> Dict([type |-> Str(<<"json_object">>)]),
          tools |-> List(<<>>), tool_choice |-> Str(<<"auto">>),
          thinking |-> Dict([type |-> Str(<<"enabled">>)])]}

CompletionOptionValues ==
    {[key \in {CompletionOptions[i] : i \in DOMAIN CompletionOptions} |-> None],
     [suffix |-> Str(<<>>), temperature |-> Num(0), top_p |-> Num(1), max_tokens |-> Num(5),
      stop |-> List(<<>>)]}

\* override mappings a caller passes as extra_body
ChatExtraBodies ==
    {None, EmptyDict,
     Dict([model |-> Str(Chat), stream |-> Bool(TRUE), temperature |-> Num(1),
           seed |-> Num(7)]),
     Dict([model |-> None]),
     Dict([model |-> Str(<<>>)]),
     Dict([model |-> Num(7)])}

CompletionExtraBodies ==
    {None,
     Dict([model |-> Str(Reasoner), stream |-> Bool(TRUE)]),
     Dict([model |-> None])}

\* what a caller passes to chat_completion: every model and stream without
\* optional arguments, and every choice of optional arguments
ChatToolArgs ==
    {options @@ [messages |-> Messages, model |-> model, stream |-> Bool(stream),
                 extra_body |-> extra] :
        options \in {o \in ChatOptionValues : \A key \in DOMAIN o : o[key] = None},
        model \in {None, Str(<<>>), Str(Reasoner)},
        stream \in BOOLEAN,
        extra \in ChatExtraBodies}
    \cup
    {options @@ [messages |-> Messages, model |-> None, stream |-> Bool(FALSE),
                 extra_body |-> extra] :
        options \in ChatOptionValues,
        extra \in ChatExtraBodies}

\* what a caller passes to completion
CompletionToolArgs ==
    {options @@ [prompt |-> Str(<<"hi">>), model |-> model, stream |-> Bool(stream),
                 extra_body |-> extra] :
        options \in {o \in CompletionOptionValues : \A key \in DOMAIN o : o[key] = None},
        model \in {None, Str(Chat)},
        stream \in BOOLEAN,
        extra \in CompletionExtraBodies}
    \cup
    {options @@ [prompt |-> Str(<<"hi">>), model |-> None, stream |-> Bool(FALSE),
                 extra_body |-> extra] :
        options \in CompletionOptionValues,
        extra \in CompletionExtraBodies}

---------------------------------------------------------------------------
(* Client specification *)

Idle ==
    /\ pc = "idle"
    /\ tool = None
    /\ call = None
    /\ requests = <<>>
    /\ held = None
    /\ outcome = None

WireIdle == wire = None /\ wireResult = None
AggIdle == chunks = <<>> /\ aggregate = None
UrlIdle == baseUrl = <<>> /\ betaUrls = <<>>

Init ==
    /\ config \in Configs
    /\ Idle
    /\ WireIdle
    /\ AggIdle
    /\ UrlIdle

\* the caller invokes a client method, which runs up to its first transport call
Begin(c, invoked) ==
    /\ pc = "idle"
    /\ tool' = invoked
    /\ call' = [method |-> c.method, arg |-> c.arg, model |-> c.model, payload |-> c.payload]
    /\ requests' = <<Pending(c.send[1])>>
    /\ pc' = "first"
    /\ UNCHANGED <<config, held, outcome>>
    /\ UNCHANGED <<wireVars, aggVars, urlVars>>

\* the transport answers the pending request and the method runs on
Answered(reply, goes) ==
    /\ requests' =
           [requests EXCEPT ![Len(requests)] = Released(@, reply)]
           \o [i \in 1..Len(goes.send) |-> Pending(goes.send[i])]
    /\ pc' = goes.pc
    /\ held' = goes.held
    /\ outcome' = goes.outcome
    /\ UNCHANGED <<config, call, tool>>
    /\ UNCHANGED <<wireVars, aggVars, urlVars>>

CreateChatCompletion == \E arg \in ChatArgs : Begin(chat_begin(config, arg), None)

ChatFirstAnswered ==
    /\ pc = "first"
    /\ call.method = "create_chat_completion"
    /\ \E reply \in ClientReplies, now \in Clock :
           Answered(reply, chat_first(config, call, reply, now))

ChatFallbackAnswered ==
    /\ pc = "retry"
    /\ call.method = "create_chat_completion"
    /\ \E reply \in ClientReplies, now \in Clock :
           Answered(reply, chat_retry(config, call, held, reply, now))

CreateCompletion == \E arg \in CompletionArgs : Begin(completion_begin(config, arg), None)

CompletionFirstAnswered ==
    /\ pc = "first"
    /\ call.method = "create_completion"
    /\ \E reply \in ClientReplies, now \in Clock :
           Answered(reply, completion_first(config, call, reply, now))

CompletionBetaAnswered ==
    /\ pc = "retry"
    /\ call.method = "create_completion"
    /\ \E reply \in ClientReplies, now \in Clock :
           Answered(reply, completion_retry(config, call, held, reply, now))

\* the logical call is over; the client is ready for the next one
NextCall ==
    /\ pc = "done"
    /\ pc' = "idle"
    /\ call' = None
    /\ requests' = <<>>
    /\ held' = None
    /\ outcome' = None
    /\ tool' = None
    /\ UNCHANGED config
    /\ UNCHANGED <<wireVars, aggVars, urlVars>>

Next ==
    \/ CreateChatCompletion
    \/ ChatFirstAnswered
    \/ ChatFallbackAnswered
    \/ CreateCompletion
    \/ CompletionFirstAnswered
    \/ CompletionBetaAnswered
    \/ NextCall

Spec == Init /\ [][Next]_vars

---------------------------------------------------------------------------
(* Transport specification: _request_json and _request_sse_json on every   *)
(* answer of the transport                                                 *)

InitWire ==
    /\ config \in {c \in Configs : c.base_url = Host /\ c.enable_reasoner_fallback
                                   /\ c.fallback_model = Chat /\ c.default_model = Chat}
    /\ Idle
    /\ wire \in Replies
    /\ wireResult = None
    /\ AggIdle
    /\ UrlIdle

RequestJson ==
    /\ wireResult' = [by |-> "_request_json", result |-> request_json(wire)]
    /\ UNCHANGED <<clientVars, aggVars, wire, tool, urlVars>>

RequestSseJson ==
    /\ wireResult' = [by |-> "_request_sse_json", result |-> request_sse_json(wire)]
    /\ UNCHANGED <<clientVars, aggVars, wire, tool, urlVars>>

NextWire == RequestJson \/ RequestSseJson

SpecWire == InitWire /\ [][NextWire]_vars

---------------------------------------------------------------------------
(* Streaming specification: _chat_or_completion_request with stream = true *)
(* on every answer of the transport                                        *)

\* the payloads of a streaming chat call and of a streaming completion call
StreamPayload(path) ==
    IF path = "/chat/completions"
    THEN Dict([messages |-> Messages, stream |-> Bool(TRUE), model |-> Str(Chat)])
    ELSE Dict([prompt |-> Str(<<"hi">>), stream |-> Bool(TRUE), model |-> Str(Chat)])

ChatOrCompletionRequest ==
    \E path \in {"/chat/completions", "/completions"}, now \in Clock :
        /\ wireResult' = [by |-> "_chat_or_completion_request", path |-> path,
                          result |-> chat_or_completion_request(path, StreamPayload(path),
                                                                wire, now)]
        /\ UNCHANGED <<clientVars, aggVars, wire, tool, urlVars>>

NextStream == ChatOrCompletionRequest

SpecStream == InitWire /\ [][NextStream]_vars

---------------------------------------------------------------------------
(* Aggregation specification: the two aggregators on every chunk list      *)

InitAgg ==
    /\ config \in {c \in Configs : c.base_url = Host /\ c.enable_reasoner_fallback
                                   /\ c.fallback_model = Chat /\ c.default_model = Chat}
    /\ Idle
    /\ WireIdle
    /\ chunks \in SeqsUpTo(StreamChunks, MaxChunks)
    /\ aggregate = None
    /\ UrlIdle

AggregateChatChunks ==
    \E fallback_model \in {Chat, Reasoner}, now \in Clock :
        /\ aggregate' = [by |-> "aggregate_chat_chunks", fallback_model |-> fallback_model,
                         now |-> now,
                         result |-> aggregate_chat_chunks(chunks, fallback_model, now)]
        /\ UNCHANGED <<clientVars, wireVars, chunks, tool, urlVars>>

AggregateCompletionChunks ==
    \E fallback_model \in {Chat, Reasoner}, now \in Clock :
        /\ aggregate' = [by |-> "aggregate_completion_chunks",
                         fallback_model |-> fallback_model, now |-> now,
                         result |-> aggregate_completion_chunks(chunks, fallback_model, now)]
        /\ UNCHANGED <<clientVars, wireVars, chunks, tool, urlVars>>

NextAgg == AggregateChatChunks \/ AggregateCompletionChunks

SpecAgg == InitAgg /\ [][NextAgg]_vars

---------------------------------------------------------------------------
(* Tool specification: the host invokes the chat_completion and completion *)
(* tools, which build the payload and call the client                      *)

InitTool ==
    /\ config \in {c \in Configs : c.base_url = Host /\ c.enable_reasoner_fallback
                                   /\ c.fallback_model = Chat}
    /\ Idle
    /\ WireIdle
    /\ AggIdle
    /\ UrlIdle

ChatCompletion ==
    \E args \in ChatToolArgs :
        Begin(chat_begin(config, chat_completion(args)),
              [name |-> "chat_completion", args |-> args])

Completion ==
    \E args \in CompletionToolArgs :
        Begin(completion_begin(config, completion(args)),
              [name |-> "completion", args |-> args])

NextTool ==
    \/ ChatCompletion
    \/ ChatFirstAnswered
    \/ ChatFallbackAnswered
    \/ Completion
    \/ CompletionFirstAnswered
    \/ CompletionBetaAnswered
    \/ NextCall

SpecTool == InitTool /\ [][NextTool]_vars

---------------------------------------------------------------------------
(* Base URL specification: build_beta_base_url on every base URL, and on   *)
(* its own result                                                          *)

\* what a base URL can hold after its host
Segments == {Slash, Beta, <<"/", "v", "1">>, <<"/", "B", "E", "T", "A">>}

\* base URLs the environment can configure
BaseUrls == {Host \o Join(path) : path \in SeqsUpTo(Segments, MaxSegments)}

InitUrl ==
    /\ config \in {c \in Configs : c.base_url = Host /\ c.enable_reasoner_fallback
                                   /\ c.fallback_model = Chat /\ c.default_model = Chat}
    /\ Idle
    /\ WireIdle
    /\ AggIdle
    /\ baseUrl \in BaseUrls
    /\ betaUrls = <<>>

BuildBetaBaseUrl ==
    /\ Len(betaUrls) < MaxApplications
    /\ betaUrls' = Append(betaUrls,
                          build_beta_base_url(IF betaUrls = <<>> THEN baseUrl
                                              ELSE betaUrls[Len(betaUrls)]))
    /\ UNCHANGED <<clientVars, wireVars, aggVars, tool, baseUrl>>

NextUrl == BuildBetaBaseUrl

SpecUrl == InitUrl /\ [][NextUrl]_vars

---------------------------------------------------------------------------
(* Properties of the client *)

Now == CHOOSE now \in Clock : TRUE

IsChat == call # None /\ call.method = "create_chat_completion"
IsCompletion == call # None /\ call.method = "create_completion"

\* request i of the logical call has been answered
AnsweredAt(i) == i <= Len(requests) /\ requests[i].reply # None

\* what the transport layer made of the answer to request i
Got(i) ==
    chat_or_completion_request(requests[i].request.path, requests[i].request.json,
                               requests[i].reply, Now)

FailedAt(i) == AnsweredAt(i) /\ Got(i).k = "raise"

\* the model named in request i
SentModel(i) == requests[i].request.json.d["model"].v

\* the error of the first call carries no status code or a retriable one
RetriableFirstError ==
    \/ Got(1).error.status = None
    \/ Got(1).error.status.v \in {408, 409, 429, 500, 502, 503, 504}

FallbackTrigger ==
    /\ config.enable_reasoner_fallback
    /\ SentModel(1) = Reasoner
    /\ config.fallback_model # SentModel(1)
    /\ RetriableFirstError

\* C1: after the first chat transport call fails, a fallback call is issued
\* if and only if fallback is enabled, the requested model is
\* "deepseek-reasoner", the fallback model differs and the error has no
\* status code or a retriable one; otherwise the first error propagates and
\* no second call is made.
C1_FallbackIffTrigger ==
    (IsChat /\ FailedAt(1)) =>
        /\ (Len(requests) >= 2) <=> FallbackTrigger
        /\ ~FallbackTrigger => (pc = "done" /\ outcome = Got(1) /\ Len(requests) = 1)

\* C2: one create_chat_completion call issues at most two transport calls;
\* when the fallback call fails, whatever its error, that error propagates
\* and nothing is issued again.
C2_AtMostOneFallback ==
    IsChat =>
        /\ Len(requests) <= 2
        /\ FailedAt(2) => (pc = "done" /\ outcome = Got(2))

C2_Witness ==
    /\ IsChat
    /\ FailedAt(2)
    /\ Got(2).error.status = Num(429)
    /\ outcome = Got(2)

\* text contains "beta" in some letter case
HasBetaAnyCase(text) ==
    \E i \in 1..(Len(text) - 3) :
        /\ text[i] \in {"b", "B"}
        /\ text[i + 1] \in {"e", "E"}
        /\ text[i + 2] \in {"t", "T"}
        /\ text[i + 3] \in {"a", "A"}

\* text contains "base url" or "base_url" in some letter case
HasBaseUrlAnyCase(text) ==
    \E i \in 1..(Len(text) - 7) :
        /\ text[i] \in {"b", "B"}
        /\ text[i + 1] \in {"a", "A"}
        /\ text[i + 2] \in {"s", "S"}
        /\ text[i + 3] \in {"e", "E"}
        /\ text[i + 4] \in {" ", "_"}
        /\ text[i + 5] \in {"u", "U"}
        /\ text[i + 6] \in {"r", "R"}
        /\ text[i + 7] \in {"l", "L"}

\* C3: in create_completion a first error whose message contains "beta" in
\* any letter case leads to exactly one further call, against the beta
\* base; a failure of that call propagates and no third call is made; a
\* first error without any trigger substring propagates with no second call.
C3_BetaRetryOnce ==
    IsCompletion =>
        /\ Len(requests) <= 2
        /\ (FailedAt(1) /\ HasBetaAnyCase(Got(1).error.message)) =>
               /\ Len(requests) = 2
               /\ requests[2].request.path = "/completions"
               /\ EndsWith(requests[2].request.base_url, <<"/", "b", "e", "t", "a">>)
        /\ (FailedAt(1) /\ ~HasBetaAnyCase(Got(1).error.message)
                        /\ ~HasBaseUrlAnyCase(Got(1).error.message)) =>
               (Len(requests) = 1 /\ pc = "done" /\ outcome = Got(1))
        /\ FailedAt(2) => (pc = "done" /\ outcome = Got(2))

C3_Witness ==
    /\ IsCompletion
    /\ FailedAt(1)
    /\ Got(1).error.message = TBeta
    /\ FailedAt(2)
    /\ HasBetaAnyCase(Got(2).error.message)
    /\ outcome = Got(2)

\* C4: a transport-level failure of the first chat call counts as an error
\* without status code: with fallback enabled, model "deepseek-reasoner" and
\* a different fallback model, the call is reissued with the fallback model.
C4_TransportFailureFallsBack ==
    (/\ IsChat
     /\ AnsweredAt(1)
     /\ requests[1].reply = NoResponse
     /\ config.enable_reasoner_fallback
     /\ SentModel(1) = Reasoner
     /\ config.fallback_model # Reasoner) =>
        (Len(requests) = 2 /\ SentModel(2) = config.fallback_model)

Result(key) == outcome.value.d[key]

\* C5: a successful create_chat_completion result has fallback = null
\* exactly when its response came from the first transport call; otherwise
\* fallback names the requested model, the configured fallback model and the
\* message of the error that triggered the fallback.
C5_FallbackProvenance ==
    (IsChat /\ pc = "done" /\ outcome.k = "return") =>
        /\ Result("response") = Got(Len(requests)).value[1]
        /\ (Result("fallback") = None) <=> (Len(requests) = 1)
        /\ Len(requests) = 2 =>
               /\ SentModel(2) = config.fallback_model
               /\ Result("fallback") = Dict([from_model |-> Str(SentModel(1)),
                                             to_model |-> Str(config.fallback_model),
                                             reason |-> Str(Got(1).error.message)])

C5_Witness ==
    /\ IsChat
    /\ pc = "done"
    /\ outcome.k = "return"
    /\ Len(requests) = 2
    /\ Result("fallback") # None

\* C6: a successful create_completion result has used_beta_base = true
\* exactly when the returned response came from a request sent to a base URL
\* ending in "/beta".
C6_UsedBetaBaseIffBetaUrl ==
    (IsCompletion /\ pc = "done" /\ outcome.k = "return") =>
        (Result("used_beta_base") = Bool(TRUE)
            <=> EndsWith(requests[Len(requests)].request.base_url, <<"/", "b", "e", "t", "a">>))

---------------------------------------------------------------------------
(* Properties of the transport methods *)

\* the JSON value the body of the answer is the text of, None when it is none
BodyIsJson == \E v \in JsonBodies \cup StreamChunks : JsonDumps(v) = Text(wire)
BodyJson == IF BodyIsJson
            THEN CHOOSE v \in JsonBodies \cup StreamChunks : JsonDumps(v) = Text(wire)
            ELSE None

Raised == wireResult # None /\ wireResult.result.k = "raise" /\ wire.k = "response"

\* the string at key of value, empty when value is no object or has no string there
StringAt(value, key) ==
    IF value.k = "dict" /\ key \in DOMAIN value.d /\ value.d[key].k = "str"
    THEN value.d[key].v
    ELSE <<>>

ErrorOf(value) ==
    IF value.k = "dict" /\ "error" \in DOMAIN value.d THEN value.d["error"] ELSE None

\* the message the priority (a) error.message, (b) message, (c) raw text,
\* (d) "status N" selects
PriorityMessage ==
    IF StringAt(ErrorOf(BodyJson), "message") # <<>> THEN StringAt(ErrorOf(BodyJson), "message")
    ELSE IF StringAt(BodyJson, "message") # <<>> THEN StringAt(BodyJson, "message")
    ELSE IF Text(wire) # <<>> THEN Text(wire)
    ELSE StatusMessage(wire.status)

\* C7: on the json path and on the stream path alike, the message of the
\* ApiError of a failing response is error.message of a JSON body, else the
\* top-level message, else the raw response text, else "status N".
C7_MessagePriority ==
    (Raised /\ wire.status >= 400) => wireResult.result.error.message = PriorityMessage

\* C8: every ApiError made from an HTTP response has a non-empty message,
\* the response's status code and, when the body is JSON, the parsed body
\* as payload.
C8_ErrorCarriesMessageStatusPayload ==
    Raised =>
        /\ wireResult.result.error.cls = "DeepSeekApiError"
        /\ wireResult.result.error.message # <<>>
        /\ wireResult.result.error.status = Num(wire.status)
        /\ (BodyIsJson /\ wire.status >= 400) => wireResult.result.error.payload = BodyJson

C8_Witness ==
    /\ Raised
    /\ wireResult.by = "_request_json"
    /\ BodyJson = ErrorBody(ErrorBody(Absent, Str(<<>>)), Str(<<>>))
    /\ wireResult.result.error.payload = BodyJson

---------------------------------------------------------------------------
(* Properties of the aggregators *)

\* the value at key of an object, None when value is no object or lacks the key
At(value, key) ==
    IF value.k = "dict" /\ key \in DOMAIN value.d THEN value.d[key] ELSE None

RECURSIVE AllChoices(_)
\* the choices of all chunks, in arrival order
AllChoices(chunkList) ==
    IF chunkList = <<>> THEN <<>>
    ELSE (IF At(Head(chunkList), "choices").k = "list"
          THEN At(Head(chunkList), "choices").v ELSE <<>>)
         \o AllChoices(Tail(chunkList))

RECURSIVE Concatenated(_)
\* the strings among values, concatenated in order
Concatenated(values) ==
    IF values = <<>> THEN <<>>
    ELSE (IF Head(values).k = "str" THEN Head(values).v ELSE <<>>) \o Concatenated(Tail(values))

\* the last value that is not in skipped, None when there is none
LastNotIn(skipped, values) ==
    IF \A i \in DOMAIN values : values[i] \in skipped THEN None
    ELSE values[CHOOSE i \in DOMAIN values :
                    /\ values[i] \notin skipped
                    /\ \A j \in DOMAIN values : j > i => values[j] \in skipped]

Falsy == {None, Str(<<>>), Num(0), Bool(FALSE), List(<<>>), EmptyDict}

DeltaContents == [i \in 1..Len(AllChoices(chunks)) |-> At(At(AllChoices(chunks)[i], "delta"), "content")]
Texts == [i \in 1..Len(AllChoices(chunks)) |-> At(AllChoices(chunks)[i], "text")]
FinishReasons == [i \in 1..Len(AllChoices(chunks)) |-> At(AllChoices(chunks)[i], "finish_reason")]

Aggregated(by) == aggregate # None /\ aggregate.by = by /\ aggregate.result.k = "return"
AggregatedChoice == aggregate.result.value.d["choices"].v[1]

---------------------------------------------------------------------------
(* Properties of streaming calls *)

\* line is an event-data line
IsData(line) == line # <<>> /\ line[1] = "data:"

\* the data of an event-data line, without the blanks around it
DataOf(line) ==
    LET data == Tail(line)
        first == IF \E i \in DOMAIN data : data[i] # " "
                 THEN CHOOSE i \in DOMAIN data :
                          data[i] # " " /\ \A j \in 1..(i - 1) : data[j] = " "
                 ELSE 1
        last == IF \E i \in DOMAIN data : data[i] # " "
                THEN CHOOSE i \in DOMAIN data :
                         data[i] # " " /\ \A j \in (i + 1)..Len(data) : data[j] = " "
                ELSE 0
    IN  SubSeq(data, first, last)

\* line is the termination marker
IsDone(line) == IsData(line) /\ DataOf(line) = <<"[DONE]">>

\* text is the text of a JSON value
Parses(text) == \E known \in JsonTexts : known[1] = text

\* the JSON value text is the text of
Parsed(text) == (CHOOSE known \in JsonTexts : known[1] = text)[2]

\* line i of body comes before the first termination marker
BeforeDone(body, i) == \A j \in 1..i : ~IsDone(body[j])

\* the lines of body that contribute a chunk
ChunkLines(body) ==
    {i \in DOMAIN body : IsData(body[i]) /\ BeforeDone(body, i) /\ Parses(DataOf(body[i]))}

\* request i asks for a stream
Streaming(i) == requests[i].request.accept = "text/event-stream"

\* request i was answered by a 2xx stream that ended without any chunk
EmptyStreamAt(i) ==
    /\ AnsweredAt(i)
    /\ Streaming(i)
    /\ requests[i].reply.k = "response"
    /\ requests[i].reply.status \in 200..299
    /\ ChunkLines(requests[i].reply.body) = {}

\* the one choice of the response of a successful call
ResultChoice == Result("response").d["choices"].v[1]

\* C11: a 2xx stream that ends with zero chunks is not an error: the call
\* returns at once, without a further request, a success with
\* stream_chunk_count 0 whose response has empty content/text, null
\* finish_reason, null usage and the model of the request.
C11_EmptyStreamSucceeds ==
    \A i \in DOMAIN requests :
        EmptyStreamAt(i) =>
            /\ Len(requests) = i
            /\ pc = "done"
            /\ outcome.k = "return"
            /\ Result("stream_chunk_count") = Num(0)
            /\ At(Result("response"), "model") = Str(SentModel(i))
            /\ At(Result("response"), "usage") = None
            /\ "usage" \in DOMAIN Result("response").d
            /\ At(ResultChoice, "finish_reason") = None
            /\ IsChat => At(ResultChoice, "message") =
                             Dict([role |-> Str(<<"assistant">>), content |-> Str(<<>>)])
            /\ IsCompletion => At(ResultChoice, "text") = Str(<<>>)

C11_Witness ==
    /\ IsChat
    /\ Len(requests) = 2
    /\ EmptyStreamAt(2)
    /\ \E c \in WireChunks :
           requests[2].reply.body = <<DataLine(<<"[DONE]">>), DataLine(JsonDumps(c))>>
    /\ Result("stream_chunk_count") = Num(0)
    /\ Result("fallback") # None

---------------------------------------------------------------------------
(* Properties of the aggregated identity and usage *)

\* some aggregator has returned the aggregate of a non-empty chunk list
AggregatedSome == aggregate # None /\ aggregate.result.k = "return" /\ chunks # <<>>

AggregateResult == aggregate.result.value

\* the synthesized id of the aggregator that ran
SynthesizedId ==
    IF aggregate.by = "aggregate_chat_chunks"
    THEN StreamId("chatcmpl-stream-", aggregate.now)
    ELSE StreamId("cmpl-stream-", aggregate.now)

\* value is absent, null, empty or otherwise false
IsFalsy(value) == value \in Falsy

\* C12: for a non-empty chunk list, id, model and created come from the
\* first chunk: created is the first chunk's created whenever it has one,
\* the last chunk's created only when the first has none, and then the
\* current time; model is the supplied fallback model only when the first
\* chunk has no model.
C12_IdentityFromFirstChunk ==
    AggregatedSome =>
        /\ At(AggregateResult, "id") =
               (IF IsFalsy(At(chunks[1], "id")) THEN SynthesizedId ELSE At(chunks[1], "id"))
        /\ At(AggregateResult, "model") =
               (IF IsFalsy(At(chunks[1], "model")) THEN Str(aggregate.fallback_model)
                ELSE At(chunks[1], "model"))
        /\ At(AggregateResult, "created") =
               (IF ~IsFalsy(At(chunks[1], "created")) THEN At(chunks[1], "created")
                ELSE IF ~IsFalsy(At(chunks[Len(chunks)], "created"))
                     THEN At(chunks[Len(chunks)], "created")
                     ELSE Num(aggregate.now))

\* the usage of every chunk, in arrival order
Usages == [i \in DOMAIN chunks |-> At(chunks[i], "usage")]

\* C13 as claimed: the usage of the aggregate of a non-empty chunk list is
\* the last non-null usage of the chunks.
C13_LastNonNullUsage ==
    AggregatedSome => At(AggregateResult, "usage") = LastNotIn({None}, Usages)

\* C13 as amended: the usage of the aggregate of a non-empty chunk list is
\* the usage of the last chunk, null when the last chunk carries none,
\* whatever the earlier chunks carry.
C13_LastChunkUsage ==
    AggregatedSome =>
        /\ "usage" \in DOMAIN AggregateResult.d
        /\ At(AggregateResult, "usage") = At(chunks[Len(chunks)], "usage")

C13_Witness ==
    /\ AggregatedSome
    /\ Len(chunks) = 3
    /\ Usages = <<None, Usage, None>>
    /\ At(AggregateResult, "usage") = None

---------------------------------------------------------------------------
(* Properties of the transport methods: status and event lines *)

\* a transport method has run on a response
Responded == wireResult # None /\ wire.k = "response"

\* C16: on the json path and on the stream path alike, a response whose
\* status is not 2xx (1xx and 3xx included) never yields a success: the
\* method raises a classified ApiError carrying the status, and on the
\* stream path no chunk is collected.
C16_Non2xxRaises ==
    (Responded /\ wire.status \notin 200..299) =>
        /\ wireResult.result.k = "raise"
        /\ wireResult.result.error.cls = "DeepSeekApiError"
        /\ wireResult.result.error.status = Num(wire.status)

\* the i-th smallest member of a set of numbers
Nth(S, i) == CHOOSE n \in S : Cardinality({m \in S : m <= n}) = i

\* the JSON values of the lines of body that contribute a chunk, in order
ChunksOf(body) ==
    [i \in 1..Cardinality(ChunkLines(body)) |-> Parsed(DataOf(body[Nth(ChunkLines(body), i)]))]

\* C17: for a 2xx streaming response the chunk list of _request_sse_json is
\* the sequence, in arrival order, of the JSON values of the lines that
\* start with "data:", come before the first "[DONE]" data line and hold
\* valid JSON; other lines are skipped, undecodable data is dropped without
\* failing, and nothing at or after "[DONE]" contributes.
C17_ChunksAreDataBeforeDone ==
    (Responded /\ wireResult.by = "_request_sse_json" /\ wire.status \in 200..299) =>
        /\ wireResult.result.k = "return"
        /\ wireResult.result.value = ChunksOf(wire.body)

C17_Witness ==
    /\ Responded
    /\ wireResult.by = "_request_sse_json"
    /\ wire.status = 200
    /\ Len(wire.body) = 2
    /\ IsData(wire.body[1])
    /\ ~Parses(DataOf(wire.body[1]))
    /\ ~IsDone(wire.body[1])
    /\ ChunkLines(wire.body) = {2}
    /\ wireResult.result.value = <<Parsed(DataOf(wire.body[2]))>>

---------------------------------------------------------------------------
(* Properties of the transport connections of a logical call *)

\* the requests of the logical call whose connection is open
OpenConnections == {i \in DOMAIN requests : requests[i].open}

\* C18: within one logical call at most one transport connection is open at
\* any moment, the retry's connection is opened only after the first one is
\* released, and when the call has returned or raised none is left open.
C18_ConnectionsScoped ==
    /\ Cardinality(OpenConnections) <= 1
    /\ \A i \in OpenConnections : i = Len(requests) /\ requests[i].reply = None
    /\ pc \in {"done", "idle"} => OpenConnections = {}

C18_Witness ==
    /\ pc = "done"
    /\ Len(requests) = 2
    /\ requests[1].reply.k = "response"
    /\ requests[2].reply = NoResponse
    /\ outcome = Raise(TransportError)
    /\ OpenConnections = {}

---------------------------------------------------------------------------
(* Properties of the reissued request *)

\* the second request of the logical call is the first one again, but for
\* what the retry policy replaces
RetryIsFirstAgain ==
    LET first == requests[1].request
        again == requests[2].request
    IN  /\ again.method = first.method
        /\ again.path = first.path
        /\ again.accept = first.accept
        /\ IsChat =>
               /\ again.base_url = first.base_url
               /\ again.url = first.url
               /\ DOMAIN again.json.d = DOMAIN first.json.d
               /\ \A key \in DOMAIN first.json.d \ {"model"} :
                      again.json.d[key] = first.json.d[key]
               /\ again.json.d["model"] = Str(config.fallback_model)
        /\ IsCompletion =>
               /\ again.json = first.json
               /\ again.base_url =
                      (IF EndsWith(first.base_url, <<"/", "b", "e", "t", "a">>)
                       THEN first.base_url
                       ELSE first.base_url \o <<"/", "b", "e", "t", "a">>)
               /\ again.url = again.base_url \o <<again.path>>

\* one step of a logical call leaves what the caller passed in and the
\* first request as they were
CallKept ==
    (pc # "idle" /\ pc' # "idle") =>
        /\ call' = call
        /\ requests'[1].request = requests[1].request

\* C20: a retry reissues the identical call: the fallback request has the
\* path, the streaming mode and every payload field of the first request
\* except model, which is the fallback model; the beta retry has the same
\* path and payload and the beta form of the configured base URL.  Building
\* the retry changes neither the first request nor the caller's mapping.
C20_RetryReissuesIdenticalCall ==
    /\ [](Len(requests) = 2 => RetryIsFirstAgain)
    /\ [][CallKept]_vars

C20_Witness ==
    /\ IsChat
    /\ Len(requests) = 2
    /\ requests[1].request.accept = "text/event-stream"
    /\ requests[1].request.json.d["model"] = Str(Reasoner)
    /\ requests[2].request.json.d["model"] = Str(Chat)
    /\ requests[2].request.json.d["stream"] = Bool(TRUE)

---------------------------------------------------------------------------
(* Properties of build_beta_base_url *)

\* text ends in "/beta/beta"
EndsInBetaTwice(text) ==
    EndsWith(text, <<"/", "b", "e", "t", "a", "/", "b", "e", "t", "a">>)

\* text without the slashes it ends in
WithoutTrailingSlashes(text) ==
    IF \A i \in DOMAIN text : text[i] = "/" THEN <<>>
    ELSE SubSeq(text, 1, CHOOSE i \in DOMAIN text :
                             text[i] # "/" /\ \A j \in (i + 1)..Len(text) : text[j] = "/")

\* C19 as claimed: build_beta_base_url is idempotent and, for every base
\* URL, its result ends in "/beta" exactly once, never in "/beta/beta", and
\* has no trailing slash.
C19_BetaExactlyOnce ==
    \A i \in DOMAIN betaUrls :
        /\ i > 1 => betaUrls[i] = betaUrls[1]
        /\ EndsWith(betaUrls[i], <<"/", "b", "e", "t", "a">>)
        /\ ~EndsInBetaTwice(betaUrls[i])
        /\ betaUrls[i][Len(betaUrls[i])] # "/"

\* C19 as amended: build_beta_base_url is idempotent, its result ends in
\* "/beta" and has no trailing slash, and it never adds a second "/beta":
\* the result ends in "/beta/beta" only for a base URL that, without its
\* trailing slashes, already ends in "/beta/beta".
C19_BetaNeverDuplicated ==
    \A i \in DOMAIN betaUrls :
        /\ i > 1 => betaUrls[i] = betaUrls[1]
        /\ EndsWith(betaUrls[i], <<"/", "b", "e", "t", "a">>)
        /\ EndsInBetaTwice(betaUrls[i]) => EndsInBetaTwice(WithoutTrailingSlashes(baseUrl))
        /\ betaUrls[i][Len(betaUrls[i])] # "/"

C19_Witness ==
    /\ baseUrl = Host \o <<"/", "b", "e", "t", "a", "/", "/">>
    /\ betaUrls = <<Host \o <<"/", "b", "e", "t", "a">>, Host \o <<"/", "b", "e", "t", "a">>>>

---------------------------------------------------------------------------
(* Properties of the payload the tools build *)

\* a tool has been invoked and its first transport request issued
ToolCalled == tool # None /\ requests # <<>>

\* the payload of the first transport request
ToolPayload == requests[1].request.json

\* the optional arguments of the invoked tool, model and stream apart
ToolOptions ==
    IF tool.name = "chat_completion"
    THEN {"temperature", "top_p", "max_tokens", "max_completion_tokens", "stop",
          "response_format", "tools", "tool_choice", "thinking"}
    ELSE {"suffix", "temperature", "top_p", "max_tokens", "stop"}

\* the optional arguments the caller supplied
Supplied == {key \in ToolOptions : tool.args[key] # None}

\* the keys of the caller's override mapping
ExtraKeys ==
    IF tool.args.extra_body.k = "dict" THEN DOMAIN tool.args.extra_body.d ELSE {}

\* the keys every payload has
Required ==
    IF tool.name = "chat_completion" THEN {"messages", "stream", "model"}
    ELSE {"prompt", "stream", "model"}

\* the caller passed nothing but the messages
OnlyMessages ==
    /\ tool.name = "chat_completion"
    /\ tool.args.model = None
    /\ tool.args.stream = Bool(FALSE)
    /\ Supplied = {}
    /\ tool.args.extra_body = None

\* C14: the payload sent upstream has only the fields that were supplied:
\* its keys are messages (or prompt), stream and model, the optional
\* arguments that are not null and the keys of the override mapping, so an
\* optional argument that is null is no key; called with only messages, the
\* payload is exactly messages, stream = false and the default model.
C14_OnlySuppliedFields ==
    ToolCalled =>
        /\ DOMAIN ToolPayload.d = Required \cup Supplied \cup ExtraKeys
        /\ \A key \in ToolOptions :
               (tool.args[key] = None /\ key \notin ExtraKeys) => key \notin DOMAIN ToolPayload.d
        /\ \A key \in Supplied \ ExtraKeys : ToolPayload.d[key] = tool.args[key]
        /\ OnlyMessages =>
               ToolPayload = Dict([messages |-> tool.args.messages, stream |-> Bool(FALSE),
                                   model |-> Str(config.default_model)])

C14_Witness ==
    /\ ToolCalled
    /\ OnlyMessages
    /\ config.default_model = Reasoner
    /\ DOMAIN ToolPayload.d = {"messages", "stream", "model"}
    /\ ToolPayload.d["model"] = Str(Reasoner)

\* C15 as claimed: every entry of the override mapping, model and stream
\* included, is in the payload of the first transport request with the
\* override's value.
C15_OverridesWin ==
    ToolCalled =>
        \A key \in ExtraKeys : ToolPayload.d[key] = tool.args.extra_body.d[key]

\* the text str() makes of a model that is a string or a number
AsText(value) == IF value.k = "num" THEN Digits(value.v) ELSE value.v

\* C15 as amended: every entry of the override mapping is in the payload of
\* the first transport request with the override's value, whatever named
\* argument had set the key before, except for model: the client sends an
\* override of model as a string, and the configured default model when the
\* override is null or empty.
C15_OverridesWinButFalsyModel ==
    ToolCalled =>
        \A key \in ExtraKeys :
            IF key # "model" THEN ToolPayload.d[key] = tool.args.extra_body.d[key]
            ELSE IF IsFalsy(tool.args.extra_body.d[key])
                 THEN ToolPayload.d[key] = Str(config.default_model)
                 ELSE ToolPayload.d[key] = Str(AsText(tool.args.extra_body.d[key]))

C15_Witness ==
    /\ ToolCalled
    /\ tool.name = "chat_completion"
    /\ tool.args.model = Str(Reasoner)
    /\ tool.args.stream = Bool(FALSE)
    /\ tool.args.extra_body =
           Dict([model |-> Str(Chat), stream |-> Bool(TRUE), temperature |-> Num(1),
                 seed |-> Num(7)])
    /\ ToolPayload.d["model"] = Str(Chat)
    /\ ToolPayload.d["stream"] = Bool(TRUE)
    /\ requests[1].request.accept = "text/event-stream"

---------------------------------------------------------------------------
(* Properties of a streaming call and its event lines *)

\* C21: for a 2xx streaming response, whatever its data lines hold (text that
\* is not JSON, an empty data field, JSON that is not an object), the
\* streaming chat or completion call returns an aggregated result and never
\* raises.
C21_EventLinesNeverFail ==
    (/\ Responded
     /\ wireResult.by = "_chat_or_completion_request"
     /\ wire.status \in 200..299) =>
        wireResult.result.k = "return"

---------------------------------------------------------------------------
(* Properties of the model the fallback decision is taken on *)

\* the caller's payload names no model: absent, null or empty
NoModelNamed == IsFalsy(At(call.arg, "model"))

\* the first call failed with an ApiError whose status is retriable
RetriableFailure ==
    /\ FailedAt(1)
    /\ Got(1).error.cls = "DeepSeekApiError"
    /\ Got(1).error.status # None
    /\ Got(1).error.status.v \in {408, 409, 429, 500, 502, 503, 504}

\* C22: the reasoner fallback is decided on the effective model, the one
\* sent upstream after defaulting: the model tested by the trigger is the
\* model of the first request; with no model named by the caller (absent,
\* null or empty) that is the configured default model, and when it is
\* "deepseek-reasoner" a retriable failure triggers the fallback as if the
\* caller had named it.
C22_FallbackOnEffectiveModel ==
    (IsChat /\ requests # <<>>) =>
        /\ call.model = SentModel(1)
        /\ NoModelNamed => SentModel(1) = config.default_model
        /\ (/\ RetriableFailure
            /\ config.enable_reasoner_fallback
            /\ SentModel(1) = Reasoner
            /\ config.fallback_model # Reasoner) =>
               (Len(requests) = 2 /\ SentModel(2) = config.fallback_model)
        /\ Len(requests) = 2 => SentModel(1) = Reasoner

C22_Witness ==
    /\ IsChat
    /\ tool # None
    /\ tool.args.model = None
    /\ tool.args.extra_body = Dict([model |-> Str(<<>>)])
    /\ NoModelNamed
    /\ config.default_model = Reasoner
    /\ Len(requests) = 2
    /\ RetriableFailure
    /\ SentModel(1) = Reasoner
    /\ SentModel(2) = Chat

=============================================================================
